---- MODULE Spec2Model ----
(***************************************************************************)
(* withTableSorting: the sort-state controller that wraps a Table          *)
(* component (src/components/Table/hoc/withTableSorting).                  *)
(*                                                                         *)
(* An optional JavaScript value is a sequence of length 0 (undefined) or 1 *)
(* (the value).  A SortState is a sequence of [column, order] records.     *)
(***************************************************************************)
EXTENDS Integers, Sequences, FiniteSets

VARIABLES
    props,      \* this.props: sortState, onSortStateChange, defaultSortState, data, columns
    state,      \* this.state: [sort]
    mounted,    \* the component has rendered at least once
    tableData,  \* the data prop handed to the wrapped TableComponent by the last render
    clicks,     \* trace of the current run of header clicks (see Click)
    tableColumns, \* the columns prop handed to the wrapped TableComponent by the last render
    headers,    \* what the last render showed in each head cell
    cache,      \* the cache of the memoized enhanceColumns
    tableDataIsInput \* whether the last render handed on the data prop itself, not a copy

vars == <<props, state, mounted, tableData, clicks, tableColumns, headers, cache,
          tableDataIsInput>>

----------------------------------------------------------------------------
(* Bounds *)

MaxRows == 3    \* longest data sequence
MaxRun == 4     \* header clicks kept in the trace

----------------------------------------------------------------------------
(* Optional values *)

Undefined == << >>
Some(v) == <<v>>
IsDefined(o) == o # << >>
Get(o) == o[1]

Last(s) == s[Len(s)]

----------------------------------------------------------------------------
(* Column descriptors.  meta is optional; meta.sort is "fn" (a compare      *)
(* function), "true" (use the generic comparison) or "false"; meta's       *)
(* defaultSortOrder is optional.                                           *)

Meta(s, d) == Some([sort |-> s, defaultSortOrder |-> d])

Columns ==
    << [id |-> "a", meta |-> Meta("true", Undefined)],
       [id |-> "b", meta |-> Meta("fn", Some("desc"))],
       [id |-> "c", meta |-> Meta("true", Some("asc"))],
       [id |-> "d", meta |-> Undefined],
       [id |-> "e", meta |-> Meta("false", Some("desc"))] >>

ColumnSortOrder == {"asc", "desc"}

\* columns.find((c) => c.id === id): the first match, or undefined
RECURSIVE Find(_, _)
Find(columns, id) ==
    IF columns = << >> THEN Undefined
    ELSE IF Head(columns).id = id THEN Some(Head(columns))
    ELSE Find(Tail(columns), id)

\* column?.meta?.sort, with undefined read as "false" (both are falsy)
MetaSort(column) ==
    IF IsDefined(column) /\ IsDefined(Get(column).meta)
    THEN Get(Get(column).meta).sort
    ELSE "false"

\* meta && meta.sort: the column is decorated and gets the click handler
IsSortable(column) == IsDefined(column.meta) /\ Get(column.meta).sort # "false"

----------------------------------------------------------------------------
(* Controlled or uncontrolled state *)

\* mutant: only the sortState prop is tested
isControlledState_sortStateOnly(p) == IsDefined(p.sortState)

isControlledState(p) == IsDefined(p.sortState) /\ p.onSortStateChange

getSortState(p, s) == IF isControlledState(p) THEN Get(p.sortState) ELSE s.sort

----------------------------------------------------------------------------
(* The sort cycle of a column *)

\* mutant: meta.defaultSortOrder is not read
getColumnDefaultSortOrder_asc(column) == "asc"

getColumnDefaultSortOrder(column) ==
    IF IsDefined(column.meta) /\ IsDefined(Get(column.meta).defaultSortOrder)
    THEN Get(Get(column.meta).defaultSortOrder)
    ELSE "asc"

\* Array.prototype.indexOf, 0-based, -1 when absent
RECURSIVE IndexOf(_, _)
IndexOf(s, x) ==
    IF s = << >> THEN -1
    ELSE IF Head(s) = x THEN 0
    ELSE LET i == IndexOf(Tail(s), x) IN IF i = -1 THEN -1 ELSE i + 1

\* Array.prototype.findIndex on the column id, 0-based, -1 when absent
RECURSIVE FindIndex(_, _)
FindIndex(sortState, id) ==
    IF sortState = << >> THEN -1
    ELSE IF Head(sortState).column = id THEN 0
    ELSE LET i == FindIndex(Tail(sortState), id) IN IF i = -1 THEN -1 ELSE i + 1

\* mutant: the next index does not wrap around the end of the order stack
getNextSortForColumn_noWrap(column, currentState) ==
    LET defaultOrder == getColumnDefaultSortOrder(column)
        orderStack == IF defaultOrder = "desc"
                      THEN <<Some("desc"), Some("asc"), Undefined>>
                      ELSE <<Some("asc"), Some("desc"), Undefined>>
        currentOrder == IF IsDefined(currentState)
                        THEN Some(Get(currentState).order) ELSE Undefined
        currentIndex == IndexOf(orderStack, currentOrder)
        nextIndex == currentIndex + 1
        nextOrder == IF nextIndex < Len(orderStack)
                     THEN orderStack[nextIndex + 1] ELSE Undefined
    IN  IF ~IsDefined(nextOrder) THEN << >>
        ELSE <<[column |-> column.id, order |-> Get(nextOrder)]>>

\* mutant: the order stack has no "none" position
getNextSortForColumn_twoState(column, currentState) ==
    LET defaultOrder == getColumnDefaultSortOrder(column)
        orderStack == IF defaultOrder = "desc"
                      THEN <<Some("desc"), Some("asc")>>
                      ELSE <<Some("asc"), Some("desc")>>
        currentOrder == IF IsDefined(currentState)
                        THEN Some(Get(currentState).order) ELSE Undefined
        currentIndex == IndexOf(orderStack, currentOrder)
        nextIndex == (currentIndex + 1) % Len(orderStack)
        nextOrder == orderStack[nextIndex + 1]
    IN  <<[column |-> column.id, order |-> Get(nextOrder)]>>

\* currentState is optional; the result is a SortState of length 0 or 1
getNextSortForColumn(column, currentState) ==
    LET defaultOrder == getColumnDefaultSortOrder(column)
        orderStack == IF defaultOrder = "desc"
                      THEN <<Some("desc"), Some("asc"), Undefined>>
                      ELSE <<Some("asc"), Some("desc"), Undefined>>
        currentOrder == IF IsDefined(currentState)
                        THEN Some(Get(currentState).order) ELSE Undefined
        currentIndex == IndexOf(orderStack, currentOrder)
        nextIndex == (currentIndex + 1) % Len(orderStack)
        nextOrder == orderStack[nextIndex + 1]
    IN  IF ~IsDefined(nextOrder) THEN << >>
        ELSE <<[column |-> column.id, order |-> Get(nextOrder)]>>

----------------------------------------------------------------------------
(* Committing a new SortState.  The outcome of a handler is the component  *)
(* state it leaves, the arguments it invoked onSortStateChange with, and   *)
(* whether it called setState.                                             *)

\* mutant: the controlled branch also replaces the internal state
handleSortStateChange_both(newSortState, p, s) ==
    IF isControlledState(p)
    THEN [state |-> [s EXCEPT !.sort = newSortState], calls |-> <<newSortState>>,
          setState |-> TRUE]
    ELSE [state |-> [s EXCEPT !.sort = newSortState], calls |-> << >>, setState |-> TRUE]

\* mutant: the callback is invoked whenever it is supplied
handleSortStateChange_callbackOnly(newSortState, p, s) ==
    IF p.onSortStateChange
    THEN [state |-> s, calls |-> <<newSortState>>, setState |-> FALSE]
    ELSE [state |-> [s EXCEPT !.sort = newSortState], calls |-> << >>, setState |-> TRUE]

handleSortStateChange(newSortState, p, s) ==
    IF isControlledState(p)
    THEN [state |-> s, calls |-> <<newSortState>>, setState |-> FALSE]
    ELSE [state |-> [s EXCEPT !.sort = newSortState], calls |-> << >>, setState |-> TRUE]

\* mutant: a shift-click puts the next entry where the current one is
NewSortState_inPlace(column, shiftKey, sortState) ==
    LET currentStateIndex == FindIndex(sortState, column.id)
        currentState == IF currentStateIndex = -1 THEN Undefined
                        ELSE Some(sortState[currentStateIndex + 1])
        nextColumnSort == getNextSortForColumn(column, currentState)
    IN  IF ~shiftKey THEN nextColumnSort
        ELSE IF IsDefined(currentState)
        THEN SubSeq(sortState, 1, currentStateIndex)
                \o nextColumnSort
                \o SubSeq(sortState, currentStateIndex + 2, Len(sortState))
        ELSE sortState \o nextColumnSort

\* mutant: a shift-click does not remove the current entry
NewSortState_noRemove(column, shiftKey, sortState) ==
    LET currentStateIndex == FindIndex(sortState, column.id)
        currentState == IF currentStateIndex = -1 THEN Undefined
                        ELSE Some(sortState[currentStateIndex + 1])
        nextColumnSort == getNextSortForColumn(column, currentState)
    IN  IF ~shiftKey THEN nextColumnSort
        ELSE sortState \o nextColumnSort

\* the new SortState that handleColumnSortClick hands to handleSortStateChange
NewSortState(column, shiftKey, sortState) ==
    LET currentStateIndex == FindIndex(sortState, column.id)
        currentState == IF currentStateIndex = -1 THEN Undefined
                        ELSE Some(sortState[currentStateIndex + 1])
        nextColumnSort == getNextSortForColumn(column, currentState)
    IN  IF ~shiftKey THEN nextColumnSort
        ELSE IF IsDefined(currentState)
        THEN SubSeq(sortState, 1, currentStateIndex)
                \o SubSeq(sortState, currentStateIndex + 2, Len(sortState))
                \o nextColumnSort
        ELSE sortState \o nextColumnSort

\* mutant: the modifier is not read, every click accumulates
handleColumnSortClick_shift(column, shiftKey, p, s) ==
    handleSortStateChange(NewSortState(column, TRUE, getSortState(p, s)), p, s)

handleColumnSortClick(column, shiftKey, p, s) ==
    handleSortStateChange(NewSortState(column, shiftKey, getSortState(p, s)), p, s)

----------------------------------------------------------------------------
(* Rows.  A row has an identity and optional values for the columns a, b   *)
(* and c; any other column identifier reads as undefined.                  *)

Row(n, va, vb, vc) == [id |-> n, a |-> va, b |-> vb, c |-> vc]

RowPool ==
    << Row(1, Some(1), Some(0), Some(1)),
       Row(2, Some(0), Some(1), Some(0)),
       Row(3, Some(1), Some(1), Some(0)),
       Row(4, Undefined, Some(0), Some(1)) >>

\* item[columnId]
Field(item, columnId) ==
    IF columnId \in DOMAIN item THEN item[columnId] ELSE Undefined

\* x > y on optional numbers: a comparison with undefined is false
GreaterThan(x, y) == IsDefined(x) /\ IsDefined(y) /\ Get(x) > Get(y)

defaultCompareFunction(itemA, itemB, columnId) ==
    IF Field(itemA, columnId) = Field(itemB, columnId) THEN 0
    ELSE IF GreaterThan(Field(itemA, columnId), Field(itemB, columnId)) THEN 1 ELSE -1

\* the compare function of column b's meta.sort: (x, y) => x.b - y.b
compareFunction(itemA, itemB) == Get(itemA.b) - Get(itemB.b)

\* mutant: an entry without a comparison ends the comparison instead of being skipped
RECURSIVE CompareItems_stopAtSkip(_, _, _, _, _)
CompareItems_stopAtSkip(itemA, itemB, sortState, columns, i) ==
    IF ~(i < Len(sortState)) THEN 0
    ELSE LET st == sortState[i + 1]
             column == Find(columns, st.column)
             sortFn == MetaSort(column)
         IN  IF sortFn = "false" THEN 0
             ELSE LET compareValue ==
                          IF sortFn = "fn" THEN compareFunction(itemA, itemB)
                          ELSE defaultCompareFunction(itemA, itemB, st.column)
                  IN  IF compareValue # 0
                      THEN (IF st.order = "asc" THEN compareValue ELSE -compareValue)
                      ELSE CompareItems_stopAtSkip(itemA, itemB, sortState, columns, i + 1)

\* the callback given to sort: the while loop over sortState from index i (0-based)
RECURSIVE CompareItems(_, _, _, _, _)
CompareItems(itemA, itemB, sortState, columns, i) ==
    IF ~(i < Len(sortState)) THEN 0
    ELSE LET st == sortState[i + 1]
             column == Find(columns, st.column)
             sortFn == MetaSort(column)
         IN  IF sortFn = "false" THEN CompareItems(itemA, itemB, sortState, columns, i + 1)
             ELSE LET compareValue ==
                          IF sortFn = "fn" THEN compareFunction(itemA, itemB)
                          ELSE defaultCompareFunction(itemA, itemB, st.column)
                  IN  IF compareValue # 0
                      THEN (IF st.order = "asc" THEN compareValue ELSE -compareValue)
                      ELSE CompareItems(itemA, itemB, sortState, columns, i + 1)

\* ECMAScript's "consistent comparison function", on the matrix of the results
ConsistentComparison(cmp) ==
    LET D == DOMAIN cmp
    IN  /\ \A i \in D : cmp[i][i] = 0
        /\ \A i, j \in D : (cmp[i][j] < 0) = (cmp[j][i] > 0)
        /\ \A i, j, k \in D :
              /\ (cmp[i][j] = 0 /\ cmp[j][k] = 0) => cmp[i][k] = 0
              /\ (cmp[i][j] < 0 /\ cmp[j][k] < 0) => cmp[i][k] < 0
              /\ (cmp[i][j] > 0 /\ cmp[j][k] > 0) => cmp[i][k] > 0

IsConsistent(data, sortState, columns) ==
    ConsistentComparison([i \in DOMAIN data |-> [j \in DOMAIN data |->
                   CompareItems(data[i], data[j], sortState, columns, 0)]])

\* stable insertion of item into a sorted sequence
RECURSIVE Insert(_, _, _, _)
Insert(item, sorted, sortState, columns) ==
    IF sorted = << >> THEN <<item>>
    ELSE IF CompareItems(Last(sorted), item, sortState, columns, 0) <= 0
    THEN Append(sorted, item)
    ELSE Append(Insert(item, SubSeq(sorted, 1, Len(sorted) - 1), sortState, columns),
                Last(sorted))

RECURSIVE StableSort(_, _, _)
StableSort(data, sortState, columns) ==
    IF data = << >> THEN << >>
    ELSE Insert(Last(data), StableSort(SubSeq(data, 1, Len(data) - 1), sortState, columns),
                sortState, columns)

Orderings(data) ==
    LET n == Len(data)
        perms == {f \in [1..n -> 1..n] : \A i, j \in 1..n : f[i] = f[j] => i = j}
    IN  {[i \in 1..n |-> data[f[i]]] : f \in perms}

\* data.slice().sort(callback): the stable sort when the callback is a
\* consistent comparison on the elements, otherwise an implementation-defined
\* order of the same elements (ECMAScript, Array.prototype.sort)
Sort(data, sortState, columns) ==
    IF IsConsistent(data, sortState, columns)
    THEN {StableSort(data, sortState, columns)}
    ELSE Orderings(data)

\* mutant: the controlled mode is not tested
getSortedData_always(p, s) ==
    LET sortState == getSortState(p, s)
    IN  IF Len(sortState) = 0 THEN {p.data}
        ELSE Sort(p.data, sortState, p.columns)

\* the possible values of the data handed to the wrapped table
getSortedData(p, s) ==
    LET sortState == getSortState(p, s)
    IN  IF isControlledState(p) \/ Len(sortState) = 0 THEN {p.data}
        ELSE Sort(p.data, sortState, p.columns)

\* whether getSortedData returns data itself; it returns a sorted copy otherwise
ReturnsInput(p, s) == isControlledState(p) \/ Len(getSortState(p, s)) = 0

\* mutant: the data prop itself is sorted
DataAfterSort_inPlace(data, result) == result

\* data.slice() sorts a copy: the data prop keeps its elements and their order
DataAfterSort(data, result) == data

----------------------------------------------------------------------------
(* Decorated columns.  A decorated column carries the header function      *)
(* name, represented by the column it closes over; a column that is passed *)
(* through has no such field.                                              *)

Decorate(column) == [id |-> column.id, meta |-> column.meta, name |-> column]

IsDecorated(column) == "name" \in DOMAIN column

\* mutant: every column that has a meta is decorated
enhanceColumns_anyMeta(columns) ==
    [i \in DOMAIN columns |->
        IF IsDefined(columns[i].meta) THEN Decorate(columns[i]) ELSE columns[i]]

\* the function given to _memoize
enhanceColumns(columns) ==
    [i \in DOMAIN columns |->
        IF IsSortable(columns[i]) THEN Decorate(columns[i]) ELSE columns[i]]

\* mutant: the cache is not keyed, the first result is returned for every argument
memoize_unkeyed(entries, columns) ==
    IF entries # {}
    THEN [value |-> (CHOOSE e \in entries : TRUE).value, cache |-> entries]
    ELSE [value |-> enhanceColumns(columns),
          cache |-> {[key |-> columns, value |-> enhanceColumns(columns)]}]

\* _memoize(func)(columns): the cached value of the key columns, or func(columns),
\* which is then cached; the result and the cache it leaves
memoize(entries, columns) ==
    IF \E e \in entries : e.key = columns
    THEN [value |-> (CHOOSE e \in entries : e.key = columns).value, cache |-> entries]
    ELSE [value |-> enhanceColumns(columns),
          cache |-> entries \cup {[key |-> columns, value |-> enhanceColumns(columns)]}]

\* mutant: the head cell is marked active by the order its indicator shows
name_activeByIndicator(column, p, s) ==
    LET sortState == getSortState(p, s)
        index == IF Len(sortState) > 0 THEN FindIndex(sortState, column.id) ELSE -1
        sortOrder == IF index = -1 THEN Undefined ELSE Some(sortState[index + 1].order)
        shown == IF IsDefined(sortOrder) THEN Get(sortOrder)
                 ELSE getColumnDefaultSortOrder(column)
    IN  [active |-> shown \in ColumnSortOrder, order |-> shown]

\* the header function of a decorated column: whether the head cell is marked
\* active, and the order its SortIndicator shows
name(column, p, s) ==
    LET sortState == getSortState(p, s)
        index == IF Len(sortState) > 0 THEN FindIndex(sortState, column.id) ELSE -1
        sortOrder == IF index = -1 THEN Undefined ELSE Some(sortState[index + 1].order)
    IN  [active |-> IsDefined(sortOrder),
         order |-> IF IsDefined(sortOrder) THEN Get(sortOrder)
                   ELSE getColumnDefaultSortOrder(column)]

\* the head cells the wrapped table renders: the result of name() for a column
\* whose name is a function, nothing of the sorting for the others
HeadCells(columns, p, s) ==
    [i \in DOMAIN columns |->
        IF IsDecorated(columns[i]) THEN Some(name(columns[i].name, p, s)) ELSE Undefined]

----------------------------------------------------------------------------
(* The inputs *)

Entry(c, o) == [column |-> c, order |-> o]

\* values of the defaultSortState prop
DefaultSortStates ==
    { Undefined,
      Some(<<Entry("c", "desc"), Entry("b", "asc")>>) }

\* values the owner of a controlled table passes as the sortState prop
OwnerSortStates ==
    { << >>,
      <<Entry("a", "asc"), Entry("c", "desc")>> }

\* data props: sequences of distinct rows of RowPool, at most MaxRows long
DataSets ==
    LET idx == DOMAIN RowPool
        seqs == UNION {[1..n -> idx] : n \in 0..MaxRows}
    IN  {[i \in DOMAIN f |-> RowPool[f[i]]] :
            f \in {g \in seqs : \A i, j \in DOMAIN g : g[i] = g[j] => i = j}}

\* the data prop of the tables whose headers are clicked
ClickData == { <<RowPool[1], RowPool[2]>> }

\* the data props a rendered table is given next
OtherData == { << >>, <<RowPool[4], RowPool[2], RowPool[1]>> }

\* SortStates of at most two entries over the columns and an unknown column z
SortStates ==
    LET ids == {Columns[i].id : i \in DOMAIN Columns} \cup {"z"}
        entries == {Entry(c, o) : c \in ids, o \in ColumnSortOrder}
    IN  {<< >>} \cup {<<x>> : x \in entries}
            \cup {p \in entries \X entries : p[1].column # p[2].column}

----------------------------------------------------------------------------
(* The trace of header clicks.  Each click is recorded with the props and  *)
(* state it saw (sortState, onSortStateChange, sort), the SortState it     *)
(* read (before), the callback invocations it made (calls) and the state   *)
(* it left (sortAfter).  The trace holds the last click and, before it,    *)
(* the run of unmodified clicks on the same column that led to it, each    *)
(* reading the SortState the previous one committed; at most the last      *)
(* MaxRun clicks are kept.                                                 *)

Committed(r) == IF r.calls # << >> THEN Last(r.calls) ELSE r.sortAfter

Record(column, shiftKey, p, s, out) ==
    [column |-> column.id, shiftKey |-> shiftKey,
     sortState |-> p.sortState, onSortStateChange |-> p.onSortStateChange,
     sort |-> s.sort, before |-> getSortState(p, s),
     calls |-> out.calls, sortAfter |-> out.state.sort,
     meta |-> column.meta]

Extend(trace, r) ==
    IF /\ trace # << >>
       /\ Last(trace).column = r.column
       /\ ~Last(trace).shiftKey /\ ~r.shiftKey
       /\ Committed(Last(trace)) = r.before
    THEN (IF Len(trace) < MaxRun THEN Append(trace, r) ELSE Append(Tail(trace), r))
    ELSE <<r>>

----------------------------------------------------------------------------
(* The state machine *)

\* the constructor: state = {sort: this.props.defaultSortState ?? []}
ConstructWith(defaults, datas, columnSets) ==
    /\ props \in [sortState : {Undefined} \cup {Some(x) : x \in OwnerSortStates},
                  onSortStateChange : BOOLEAN,
                  defaultSortState : defaults,
                  data : datas,
                  columns : columnSets]
    /\ state = [sort |-> IF IsDefined(props.defaultSortState)
                         THEN Get(props.defaultSortState) ELSE << >>]
    /\ mounted = FALSE
    /\ tableData = << >>
    /\ clicks = << >>
    /\ tableColumns = << >>
    /\ headers = << >>
    /\ cache = {}
    /\ tableDataIsInput = FALSE

Construct(defaults, datas) == ConstructWith(defaults, datas, {Columns})

Init == Construct(DefaultSortStates, ClickData)

\* render() with the props p and the state s: the wrapped table receives
\* getSortedData() and the memoized enhanceColumns(columns), and renders its head cells
RenderTable(p, s) ==
    /\ \E result \in getSortedData(p, s) :
          /\ tableData' = result
          /\ props' = [p EXCEPT !.data = DataAfterSort(p.data, result)]
    /\ tableDataIsInput' = ReturnsInput(p, s)
    /\ LET memo == memoize(cache, p.columns)
       IN  /\ tableColumns' = memo.value
           /\ cache' = memo.cache
           /\ headers' = HeadCells(memo.value, p, s)

Render ==
    /\ mounted' = TRUE
    /\ RenderTable(props, state)
    /\ UNCHANGED <<state, clicks>>

\* a click on a head cell.  A decorated column's cell runs handleColumnSortClick
\* with the column bound to it, and setState is followed by a render; the cell of
\* any other column has no handler.
Click(header, shiftKey) ==
    /\ mounted
    /\ IF IsDecorated(header)
       THEN LET column == header.name
                out == handleColumnSortClick(column, shiftKey, props, state)
            IN  /\ state' = out.state
                /\ clicks' = Extend(clicks, Record(column, shiftKey, props, state, out))
                /\ IF out.setState
                   THEN RenderTable(props, out.state)
                   ELSE UNCHANGED <<props, tableData, tableColumns, headers, cache,
                                   tableDataIsInput>>
                /\ UNCHANGED mounted
       ELSE UNCHANGED vars

\* the parent renders the table with another sortState prop: one of its choice,
\* or the one the last click handed to its callback.  The parent keeps a prop it
\* supplies: a table does not change between controlled and uncontrolled.
SetSortState(sortState) ==
    /\ mounted
    /\ IsDefined(props.sortState)
    /\ RenderTable([props EXCEPT !.sortState = sortState], state)
    /\ UNCHANGED <<state, mounted, clicks>>

\* the parent renders the table with other data; like every change of a prop
\* other than sortState, this ends the run of clicks the trace follows
SetData(data) ==
    /\ mounted
    /\ RenderTable([props EXCEPT !.data = data], state)
    /\ clicks' = << >>
    /\ UNCHANGED <<state, mounted>>

\* the parent renders the table with other columns
SetColumns(columns) ==
    /\ mounted
    /\ RenderTable([props EXCEPT !.columns = columns], state)
    /\ clicks' = << >>
    /\ UNCHANGED <<state, mounted>>

\* mutant: the internal state follows the defaultSortState prop
SetDefaultSortState_reset(defaultSortState) ==
    /\ mounted
    /\ state' = [sort |-> IF IsDefined(defaultSortState)
                          THEN Get(defaultSortState) ELSE << >>]
    /\ RenderTable([props EXCEPT !.defaultSortState = defaultSortState], state')
    /\ clicks' = << >>
    /\ UNCHANGED mounted

\* the parent renders the table with another defaultSortState
SetDefaultSortState(defaultSortState) ==
    /\ mounted
    /\ RenderTable([props EXCEPT !.defaultSortState = defaultSortState], state)
    /\ clicks' = << >>
    /\ UNCHANGED <<state, mounted>>

Reported ==
    IF clicks # << >> /\ Last(clicks).calls # << >>
    THEN {Some(Last(Last(clicks).calls))} ELSE {}

Next ==
    \/ Render
    \/ \E i \in DOMAIN tableColumns, shiftKey \in BOOLEAN :
          Click(tableColumns[i], shiftKey)
    \/ \E sortState \in {Some(x) : x \in OwnerSortStates} \cup Reported :
          SetSortState(sortState)

Spec == Init /\ [][Next]_vars

(* The sorted data as a function of the props and the state: every data    *)
(* sequence and every SortState of at most two entries, rendered by a      *)
(* table with neither or both of sortState and onSortStateChange.          *)

InitSort ==
    /\ Construct({Undefined} \cup {Some(x) : x \in SortStates}, DataSets)
    /\ IsDefined(props.sortState) = props.onSortStateChange

NextSort ==
    \/ Render
    \/ \E data \in OtherData : SetData(data)

SpecSort == InitSort /\ [][NextSort]_vars

(* The table under every change of its props: two column sequences, two    *)
(* data sequences and two defaultSortState values, changed while mounted.  *)

\* column sequences the parent passes: the column a differs in its default order
ColumnSets ==
    { <<Columns[1], Columns[2], Columns[4]>>,
      <<[id |-> "a", meta |-> Meta("true", Some("desc"))], Columns[5]>> }

\* values of the defaultSortState prop of such a table
DefaultsOfProps == { Undefined, Some(<<Entry("b", "asc")>>) }

\* data props of such a table
DataOfProps == { <<RowPool[1], RowPool[2]>>, <<RowPool[2], RowPool[3]>> }

InitProps == ConstructWith(DefaultsOfProps, DataOfProps, ColumnSets)

NextProps ==
    \/ Render
    \/ \E i \in DOMAIN tableColumns, shiftKey \in BOOLEAN :
          Click(tableColumns[i], shiftKey)
    \/ \E sortState \in {Some(x) : x \in OwnerSortStates} \cup Reported :
          SetSortState(sortState)
    \/ \E data \in DataOfProps : SetData(data)
    \/ \E columns \in ColumnSets : SetColumns(columns)
    \/ \E defaultSortState \in DefaultsOfProps : SetDefaultSortState(defaultSortState)

SpecProps == InitProps /\ [][NextProps]_vars

----------------------------------------------------------------------------
(* Vocabulary of the properties *)

HasEntry(sortState, id) == \E i \in DOMAIN sortState : sortState[i].column = id

\* the order of the entry of column id
OrderIn(sortState, id) == sortState[FindIndex(sortState, id) + 1].order

\* sortState without the entries of column id
RECURSIVE Without(_, _)
Without(sortState, id) ==
    IF sortState = << >> THEN << >>
    ELSE IF Head(sortState).column = id THEN Without(Tail(sortState), id)
    ELSE <<Head(sortState)>> \o Without(Tail(sortState), id)

NoDuplicates(sortState) ==
    \A i, j \in DOMAIN sortState : sortState[i].column = sortState[j].column => i = j

Opposite(order) == IF order = "asc" THEN "desc" ELSE "asc"

\* asc unless the column's meta.defaultSortOrder is desc
DefaultOrderOf(id) ==
    LET column == Get(Find(props.columns, id))
    IN  IF IsDefined(column.meta) /\ Get(column.meta).defaultSortOrder = Some("desc")
        THEN "desc" ELSE "asc"

\* the cycle default -> opposite -> none: the entry that follows order, if any
CycleNext(id, order) ==
    IF order = DefaultOrderOf(id)
    THEN <<Entry(id, Opposite(order))>> ELSE << >>

WasControlled(r) == IsDefined(r.sortState) /\ r.onSortStateChange

----------------------------------------------------------------------------
(* C1: from a SortState with no entry for column X, consecutive unmodified *)
(* clicks on X commit [{X, d}], [{X, opposite d}], [] and then [{X, d}]    *)
(* again, d being X's default order (asc, or desc when so configured).     *)
C1_ClickCycle ==
    \A i \in DOMAIN clicks :
        LET r == clicks[i]
            X == r.column
            d == DefaultOrderOf(X)
            n == Len(clicks)
        IN  (~r.shiftKey /\ ~HasEntry(r.before, X)) =>
                /\ Committed(r) = <<Entry(X, d)>>
                /\ i + 1 <= n => Committed(clicks[i + 1]) = <<Entry(X, Opposite(d))>>
                /\ i + 2 <= n => Committed(clicks[i + 2]) = << >>
                /\ i + 3 <= n => Committed(clicks[i + 3]) = <<Entry(X, d)>>

\* four consecutive unmodified clicks on b (default desc), begun with other keys active
C1_Witness ==
    /\ Len(clicks) >= 4
    /\ clicks[1].column = "b"
    /\ clicks[1].before # << >>
    /\ ~HasEntry(clicks[1].before, "b")
    /\ Committed(clicks[4]) = <<Entry("b", "desc")>>

(* C2: an unmodified click on X replaces the whole SortState by X's next   *)
(* entry alone: [{X, default}] when X had no entry, [{X, next order}] when *)
(* it had one, [] when the next position is none; no other entry survives. *)
C2_ClickReplaces ==
    \A i \in DOMAIN clicks :
        LET r == clicks[i]
            X == r.column
            new == Committed(r)
        IN  ~r.shiftKey =>
                /\ \A k \in DOMAIN new : new[k].column = X
                /\ new = IF HasEntry(r.before, X)
                         THEN CycleNext(X, OrderIn(r.before, X))
                         ELSE <<Entry(X, DefaultOrderOf(X))>>

\* an unmodified click on an active column of a three-key state
C2_Witness ==
    /\ clicks # << >>
    /\ ~Last(clicks).shiftKey
    /\ Len(Last(clicks).before) = 3
    /\ HasEntry(Last(clicks).before, Last(clicks).column)
    /\ Len(Committed(Last(clicks))) = 1

(* C3: a shift-click on a column Y without an entry appends                *)
(* {Y, defaultOrder(Y)} as the last entry and keeps every entry of the     *)
(* SortState in place.                                                     *)
C3_ShiftAppends ==
    \A i \in DOMAIN clicks :
        LET r == clicks[i]
            Y == r.column
        IN  (r.shiftKey /\ ~HasEntry(r.before, Y)) =>
                Committed(r) = Append(r.before, Entry(Y, DefaultOrderOf(Y)))

\* shift-click on b while [{a, asc}] is active
C3_Witness ==
    /\ clicks # << >>
    /\ Last(clicks).shiftKey
    /\ Last(clicks).column = "b"
    /\ Last(clicks).before = <<Entry("a", "asc")>>
    /\ Committed(Last(clicks)) = <<Entry("a", "asc"), Entry("b", "desc")>>

(* C4: a shift-click on a column Y that has an entry in a multi-key        *)
(* SortState removes that entry and appends Y's next entry at the end, or  *)
(* drops Y when its next position is none; the other entries keep their    *)
(* orders and their relative order.                                        *)
C4_ShiftCycles ==
    \A i \in DOMAIN clicks :
        LET r == clicks[i]
            Y == r.column
        IN  (r.shiftKey /\ HasEntry(r.before, Y) /\ Len(r.before) >= 2) =>
                Committed(r) = Without(r.before, Y) \o CycleNext(Y, OrderIn(r.before, Y))

\* shift-click on the first key of a three-key state, which moves to the end
C4_Witness ==
    /\ clicks # << >>
    /\ Last(clicks).shiftKey
    /\ Len(Last(clicks).before) = 3
    /\ Last(clicks).before[1].column = Last(clicks).column
    /\ Len(Committed(Last(clicks))) = 3

(* C5: every initial SortState here being free of duplicates, no SortState *)
(* the table holds, reads or hands to the callback has two entries for one *)
(* column.                                                                 *)
C5_NoDuplicateColumns ==
    /\ NoDuplicates(state.sort)
    /\ NoDuplicates(getSortState(props, state))
    /\ \A i \in DOMAIN clicks : NoDuplicates(Committed(clicks[i]))

\* a shift-click on an active column of a two-key state that stays active
C5_Witness ==
    /\ clicks # << >>
    /\ Last(clicks).shiftKey
    /\ Len(Last(clicks).before) = 2
    /\ HasEntry(Last(clicks).before, Last(clicks).column)
    /\ Len(Committed(Last(clicks))) = 2

(* C6: in controlled mode the wrapped table receives the input data in its *)
(* original order, whatever the external SortState holds.                  *)
C6_ControlledDataUnchanged ==
    (mounted /\ IsDefined(props.sortState) /\ props.onSortStateChange) =>
        tableData = props.data

\* controlled, with an external SortState that would reorder the data
C6_Witness ==
    /\ mounted
    /\ IsDefined(props.sortState) /\ props.onSortStateChange
    /\ Get(props.sortState) # << >>
    /\ StableSort(props.data, Get(props.sortState), props.columns) # props.data
    /\ clicks # << >>

(* C7: every header click commits exactly one new SortState, computed from *)
(* the SortState current at the click: a controlled click invokes the      *)
(* callback once with the state computed from the external sortState and   *)
(* leaves the internal state alone; an uncontrolled click replaces the     *)
(* internal state and invokes no callback.                                 *)
C7_OneCommitPerClick ==
    \A i \in DOMAIN clicks :
        LET r == clicks[i]
            column == Get(Find(props.columns, r.column))
        IN  IF WasControlled(r)
            THEN /\ r.calls = <<NewSortState(column, r.shiftKey, Get(r.sortState))>>
                 /\ r.sortAfter = r.sort
            ELSE /\ r.calls = << >>
                 /\ r.sortAfter = NewSortState(column, r.shiftKey, r.sort)

\* a controlled click whose new state differs from the internal state, after
\* an earlier click of the same run
C7_Witness ==
    /\ Len(clicks) >= 2
    /\ WasControlled(Last(clicks))
    /\ Last(clicks).calls # <<Last(clicks).sort>>
    /\ Last(clicks).calls # <<Last(clicks).before>>

\* the data sorted by sortState, as an uncontrolled table hands it on
SortedBy(data, sortState) ==
    IF sortState = << >> THEN {data} ELSE Sort(data, sortState, props.columns)

(* C8: with exactly one of sortState and onSortStateChange supplied the    *)
(* table is uncontrolled: clicks read and replace the internal state and   *)
(* invoke no callback, and the data is sorted by the internal state.       *)
C8_PartialIsUncontrolled ==
    /\ (mounted /\ IsDefined(props.sortState) # props.onSortStateChange) =>
            tableData \in SortedBy(props.data, state.sort)
    /\ \A i \in DOMAIN clicks :
          LET r == clicks[i]
              column == Get(Find(props.columns, r.column))
          IN  (IsDefined(r.sortState) # r.onSortStateChange) =>
                  /\ r.before = r.sort
                  /\ r.calls = << >>
                  /\ r.sortAfter = NewSortState(column, r.shiftKey, r.sort)

\* only sortState supplied: a click has set an internal state that differs from
\* it and reorders the data
C8_Witness ==
    /\ IsDefined(props.sortState) /\ ~props.onSortStateChange
    /\ Get(props.sortState) # << >>
    /\ clicks # << >>
    /\ state.sort # << >>
    /\ state.sort # Get(props.sortState)
    /\ tableData # props.data

\* the comparison of two rows under one SortState entry of a sortable column: the
\* column's own function or the generic comparison, negated for desc
Directed(entry, itemA, itemB) ==
    LET column == Get(Find(props.columns, entry.column))
        value == IF Get(column.meta).sort = "fn"
                 THEN compareFunction(itemA, itemB)
                 ELSE defaultCompareFunction(itemA, itemB, entry.column)
    IN  IF entry.order = "asc" THEN value ELSE -value

SortableEntry(entry) ==
    /\ IsDefined(Find(props.columns, entry.column))
    /\ IsSortable(Get(Find(props.columns, entry.column)))

Uncontrolled == ~(IsDefined(props.sortState) /\ props.onSortStateChange)

(* C9: in uncontrolled mode, with the single entry {column, asc} on a      *)
(* sortable column the data handed to the table is non-decreasing under    *)
(* the column's comparator, and with {column, desc} non-increasing.        *)
C9_SingleKeyOrdered ==
    (mounted /\ Uncontrolled /\ Len(state.sort) = 1 /\ SortableEntry(state.sort[1])) =>
        \A i, j \in DOMAIN tableData :
            i < j => Directed(state.sort[1], tableData[i], tableData[j]) <= 0

(* C10: in uncontrolled mode, with a SortState [A, B] over sortable        *)
(* columns the data handed to the table is ordered by A in A's direction,  *)
(* and rows that tie under A are ordered by B in B's direction.            *)
C10_MultiKeyOrdered ==
    (/\ mounted /\ Uncontrolled /\ Len(state.sort) = 2
     /\ SortableEntry(state.sort[1]) /\ SortableEntry(state.sort[2])) =>
        \A i, j \in DOMAIN tableData :
            i < j =>
                /\ Directed(state.sort[1], tableData[i], tableData[j]) <= 0
                /\ Directed(state.sort[1], tableData[i], tableData[j]) = 0 =>
                       Directed(state.sort[2], tableData[i], tableData[j]) <= 0

\* sort metadata: a meta whose sort is a function or true
HasSortMetadata(meta) == IsDefined(meta) /\ Get(meta).sort \in {"fn", "true"}

(* C11: a column with no meta or a falsy meta.sort reaches the wrapped     *)
(* table as it was passed and carries no header function or click handler, *)
(* a column with sort metadata is decorated, and every click that computed *)
(* a SortState, changed the state or invoked the callback was on a column  *)
(* with sort metadata.                                                     *)
C11_PlainColumnsPassThrough ==
    /\ mounted =>
          /\ Len(tableColumns) = Len(props.columns)
          /\ \A i \in DOMAIN props.columns :
                IF HasSortMetadata(props.columns[i].meta)
                THEN /\ IsDecorated(tableColumns[i])
                     /\ tableColumns[i].name = props.columns[i]
                     /\ IsDefined(headers[i])
                ELSE /\ tableColumns[i] = props.columns[i]
                     /\ ~IsDefined(headers[i])
    /\ \A k \in DOMAIN clicks : HasSortMetadata(clicks[k].meta)

\* a table with a column without meta and a column whose meta.sort is false,
\* both passed through, after a click on a decorated header
C11_Witness ==
    /\ mounted
    /\ clicks # << >>
    /\ \E i, j \in DOMAIN props.columns :
          /\ ~IsDefined(props.columns[i].meta)
          /\ IsDefined(props.columns[j].meta) /\ Get(props.columns[j].meta).sort = "false"
          /\ tableColumns[i] = props.columns[i]
          /\ tableColumns[j] = props.columns[j]

\* the place of a row in a sequence of distinct rows
PlaceOf(row, data) == CHOOSE i \in DOMAIN data : data[i] = row

\* every entry of the SortState on a sortable column compares the two rows as equal
TiedRows(sortState, itemA, itemB) ==
    \A k \in DOMAIN sortState :
        SortableEntry(sortState[k]) => Directed(sortState[k], itemA, itemB) = 0

(* C12: the sort is stable: in uncontrolled mode two rows that every       *)
(* active sort key compares as equal are handed to the table in the        *)
(* relative order they have in the data prop, for asc and desc alike.      *)
C12_StableSort ==
    (mounted /\ Uncontrolled /\ state.sort # << >>) =>
        \A i, j \in DOMAIN props.data :
            (i < j /\ TiedRows(state.sort, props.data[i], props.data[j])) =>
                PlaceOf(props.data[i], tableData) < PlaceOf(props.data[j], tableData)

\* the SortState without the entries that name no column or a column without
\* sort capability
Pruned(sortState) == SelectSeq(sortState, SortableEntry)

(* C13: an entry of the SortState that names no column, or a column        *)
(* without sort capability, does not affect the order: in uncontrolled     *)
(* mode the data handed to the table is the data sorted by the SortState   *)
(* without such entries, and it is the data prop in its own order when no  *)
(* entry is left.                                                          *)
C13_SkippedEntries ==
    (mounted /\ Uncontrolled) =>
        /\ getSortedData(props, state) = SortedBy(props.data, Pruned(state.sort))
        /\ tableData \in SortedBy(props.data, Pruned(state.sort))
        /\ Pruned(state.sort) = << >> => tableData = props.data

\* an entry without sort capability ahead of an entry that reorders the data
C13_Witness ==
    /\ mounted /\ Uncontrolled
    /\ Len(state.sort) = 2
    /\ ~SortableEntry(state.sort[1])
    /\ SortableEntry(state.sort[2])
    /\ tableData # props.data

\* the number of places a row has in a sequence
Count(row, data) == Cardinality({i \in DOMAIN data : data[i] = row})

\* the same rows with the same multiplicities
IsPermutation(dataA, dataB) ==
    /\ Len(dataA) = Len(dataB)
    /\ \A i \in DOMAIN dataB : Count(dataB[i], dataA) = Count(dataB[i], dataB)

(* C14: getSortedData leaves the data prop as it is.  With an empty        *)
(* SortState (or in controlled mode) the table is handed the data prop     *)
(* itself; in uncontrolled mode with a non-empty state it is handed a new  *)
(* sequence that is a permutation of the data prop; and the data prop      *)
(* changes only when the parent passes another one, never by a render.     *)
C14_InputUntouched ==
    /\ [](mounted =>
            /\ tableDataIsInput = (~Uncontrolled \/ state.sort = << >>)
            /\ tableDataIsInput => tableData = props.data
            /\ IsPermutation(tableData, props.data))
    /\ [][/\ (~mounted /\ mounted') => props'.data = props.data
          /\ props'.data # props.data => props'.data \in OtherData]_vars

\* uncontrolled with a non-empty state: the table is handed a reordered copy
C14_Witness ==
    /\ mounted /\ Uncontrolled
    /\ state.sort # << >>
    /\ ~tableDataIsInput
    /\ tableData # props.data
    /\ Len(props.data) = MaxRows

\* the SortState in effect: the external one when controlled, the internal one otherwise
CurrentSortState == IF Uncontrolled THEN state.sort ELSE Get(props.sortState)

(* C15: the head cell of a sortable column, as last rendered, is marked    *)
(* active exactly when the current SortState holds an entry for the        *)
(* column; its indicator shows the order of that entry, or the column's    *)
(* default order (asc unless configured desc) when there is none.          *)
C15_ActiveIffEntry ==
    mounted =>
        \A i \in DOMAIN props.columns :
            LET id == props.columns[i].id
            IN  HasSortMetadata(props.columns[i].meta) =>
                    /\ IsDefined(headers[i])
                    /\ Get(headers[i]).active = HasEntry(CurrentSortState, id)
                    /\ Get(headers[i]).order =
                           IF HasEntry(CurrentSortState, id)
                           THEN OrderIn(CurrentSortState, id)
                           ELSE DefaultOrderOf(id)

\* after a click: one head cell is active and shows the opposite of its default
\* order, another shows its default order desc and is not active
C15_Witness ==
    /\ mounted
    /\ clicks # << >>
    /\ \E i, j \in DOMAIN headers :
          /\ IsDefined(headers[i]) /\ IsDefined(headers[j])
          /\ Get(headers[i]).active
          /\ Get(headers[i]).order # DefaultOrderOf(props.columns[i].id)
          /\ ~Get(headers[j]).active
          /\ Get(headers[j]).order = "desc"

(* C16: the internal SortState is defaultSortState, or empty, until the    *)
(* table is mounted, and later changes only in a step that is a header     *)
(* click handled in uncontrolled mode, with the props unchanged: renders,  *)
(* changes of the data, columns, defaultSortState or sortState props and   *)
(* controlled clicks leave it as it is.                                    *)
C16_StateOwnedByClicks ==
    /\ [](~mounted =>
            state.sort = IF IsDefined(props.defaultSortState)
                         THEN Get(props.defaultSortState) ELSE << >>)
    /\ [][state' # state =>
            /\ mounted /\ Uncontrolled
            /\ props' = props
            /\ clicks' # clicks
            /\ ~WasControlled(Last(clicks'))
            /\ Last(clicks').sort = state.sort
            /\ Last(clicks').sortAfter = state'.sort]_vars

\* a controlled table whose defaultSortState prop was set after the mount, and
\* which then handled a click: the internal state is still the empty one
C16_Witness ==
    /\ mounted /\ ~Uncontrolled
    /\ props.defaultSortState = Some(<<Entry("b", "asc")>>)
    /\ state.sort = << >>
    /\ clicks # << >>
    /\ Last(clicks).calls # << >>
    /\ Cardinality(cache) = 2

(* C17: the memoized decorated columns behave as freshly decorated ones:   *)
(* the columns and head cells of the last render are those a new           *)
(* decoration of the columns prop yields with the current SortState, and   *)
(* every click of the run was handled for the column of the columns prop   *)
(* with the clicked id, committing the state computed from the SortState   *)
(* at the click.                                                           *)
C17_MemoizedAsFresh ==
    /\ mounted =>
          /\ tableColumns = enhanceColumns(props.columns)
          /\ headers = HeadCells(enhanceColumns(props.columns), props, state)
    /\ \A k \in DOMAIN clicks :
          LET r == clicks[k]
              column == Find(props.columns, r.column)
          IN  /\ IsDefined(column)
              /\ Get(column).meta = r.meta
              /\ Committed(r) = NewSortState(Get(column), r.shiftKey, r.before)

\* both column sequences are cached, and a click since the last change of the
\* columns has changed the state and was rendered from the cache
C17_Witness ==
    /\ mounted /\ Uncontrolled
    /\ Cardinality(cache) = 2
    /\ clicks # << >>
    /\ Last(clicks).sortAfter # Last(clicks).sort
    /\ \E i \in DOMAIN headers : IsDefined(headers[i]) /\ Get(headers[i]).active

(* C18: no click reads an absent external state or invokes an absent       *)
(* callback: whichever of sortState and onSortStateChange are supplied, a  *)
(* click that invoked the callback had both, a click read the external     *)
(* state only with both supplied and the internal state otherwise, and     *)
(* every click committed its state, by the callback or by setState.        *)
C18_ControlledBranchHasBoth ==
    \A k \in DOMAIN clicks :
        LET r == clicks[k]
        IN  /\ r.calls # << >> => (IsDefined(r.sortState) /\ r.onSortStateChange)
            /\ r.before # r.sort => (IsDefined(r.sortState) /\ r.onSortStateChange)
            /\ (IsDefined(r.sortState) /\ r.onSortStateChange) =>
                   (r.before = Get(r.sortState) /\ Len(r.calls) = 1)
            /\ ~(IsDefined(r.sortState) /\ r.onSortStateChange) =>
                   r.sortAfter = Committed(r)

\* only the callback is supplied: a click has replaced the internal state without
\* invoking it
C18_Witness ==
    /\ mounted
    /\ ~IsDefined(props.sortState) /\ props.onSortStateChange
    /\ clicks # << >>
    /\ Last(clicks).calls = << >>
    /\ Last(clicks).sortAfter # Last(clicks).sort
    /\ state.sort = Last(clicks).sortAfter

\* the number of unmodified clicks on column id that lead from sortState to the
\* empty SortState
ClicksToEmpty(sortState, id) ==
    IF ~HasEntry(sortState, id) THEN 3
    ELSE IF OrderIn(sortState, id) = DefaultOrderOf(id) THEN 2
    ELSE 1

(* C19: in uncontrolled mode at most three consecutive unmodified clicks   *)
(* on a sortable column X lead from any SortState to the empty one (three  *)
(* when X has no entry, two when its entry has X's default order, one      *)
(* otherwise), and the unmodified click on X that follows the empty        *)
(* SortState commits [{X, default order of X}].                            *)
C19_EmptyAlwaysReachable ==
    \A i \in DOMAIN clicks :
        LET r == clicks[i]
            X == r.column
            n == Len(clicks)
            last == i + ClicksToEmpty(r.before, X) - 1
        IN  (~WasControlled(r) /\ ~r.shiftKey) =>
                /\ ClicksToEmpty(r.before, X) <= 3
                /\ last <= n => Committed(clicks[last]) = << >>
                /\ i + 2 <= n => \E k \in i .. i + 2 : Committed(clicks[k]) = << >>
                /\ (Committed(r) = << >> /\ i + 1 <= n) =>
                       Committed(clicks[i + 1]) = <<Entry(X, DefaultOrderOf(X))>>

\* uncontrolled: from two entries, one of them X's in the opposite of its default
\* order, one click empties the SortState, the next commits X's default entry and
\* the fourth empties it again
C19_Witness ==
    /\ Len(clicks) = 4
    /\ ~WasControlled(clicks[1])
    /\ Len(clicks[1].before) = 2
    /\ HasEntry(clicks[1].before, clicks[1].column)
    /\ Committed(clicks[1]) = << >>
    /\ Committed(clicks[2]) = <<Entry(clicks[1].column, DefaultOrderOf(clicks[1].column))>>
    /\ Committed(clicks[4]) = << >>
    /\ state.sort = << >>

====
